---- MODULE Spec2Model ----
(***************************************************************************)
(* Model of the onyx-engine game server (src/server/src/main.rs): the      *)
(* world state store (players, maps), the message dispatcher               *)
(* (handle_message, handle_disconnect), the warp protocol (warp_player)    *)
(* and the outbound queue (queue, send_all).                               *)
(*                                                                         *)
(* Floats are modelled as integers (pixels), Option<T> as a sequence of    *)
(* length 0 (None) or 1 (Some), a HashMap as a function on its key set.    *)
(*                                                                         *)
(* Spec follows the dispatcher: the game loop takes a signal from the      *)
(* transport, dispatches it, and flushes the outbound queue.  SpecView     *)
(* dispatches handshakes, warps, chat and disconnects in bursts and lets   *)
(* every client apply the events the flush writes to it.                   *)
(*                                                                         *)
(* SpecSim follows game_loop pass by pass on a map with a wall and a       *)
(* notice area: the clock, the signals, update_players, send_all.  The     *)
(* clock counts whole units of 1/UnitsPerSecond s.  SpecLoop puts the      *)
(* channel of the network context in front of the loop: signals are        *)
(* deposited at any time and received by the drain.                        *)
(*                                                                         *)
(* SpecSave follows the maps: the store, the files of ./data/maps, saves   *)
(* of payloads of any shape whose write may fail.  A layer of a map is     *)
(* kept as the number of tiles it holds.                                   *)
(*                                                                         *)
(* SpecLive is the loop under weak fairness of the loop thread, with a     *)
(* network context that may deposit at any time.  SpecMap applies the      *)
(* functions of the client's map (src/client/src/map.rs: Map::new and the  *)
(* conversions from and to RemoteMap) once, to a value drawn from a        *)
(* bounded set; there a layer is the sequence of its tiles, and a u32      *)
(* product is computed in halves of 16 bits.                               *)
(***************************************************************************)
EXTENDS Integers, Sequences, FiniteSets, TLC

\* ------------------------------------------------------------------ bounds

\* number of connection identifiers the transport hands out
NumClients == 2
\* inbound signals dispatched between two flushes of the outbound queue
MaxPerTick == 1
\* the same, where the clients' views of the world are followed
MaxBurst == 2

\* the clock's resolution: units per second
UnitsPerSecond == 2
\* the latest instant the clock reaches
MaxTime == 4
\* the longest tick, in units
MaxDt == 2
\* the longest delay between the loop reading the clock and elapsed()
MaxLag == 1
\* signals the network context deposits in a run
MaxDeposits == 4
\* signals waiting in the channel at once
MaxInbox == 2
\* connections that send Move requests in the movement runs
NumWalkers == 1
\* connections the network context deposits signals of
NumSenders == 1
\* the longest side of a map of the client, in tiles
MaxSide == 2

ClientIds == 1..NumClients
\* the connections that walk; the others join and stand
Walkers == 1..NumWalkers
\* the connections whose signals pass through the channel
Senders == 1..NumSenders

\* ------------------------------------------------------------- basic types

None == <<>>
Some(v) == <<v>>
unwrap_or(opt, default) == IF opt = None THEN default ELSE opt[1]

\* MapId::start()
StartMap == 0
\* a second map identifier
OtherMap == StartMap + 1
MapIds == {StartMap, OtherMap}

\* Point2D::new(10. * 48., 7. * 48.)
SpawnPosition == <<480, 336>>

\* inputs of the requests
HelloInputs == {<<"ann", 1>>, <<"bob", 2>>}
ChatTexts == {"hi"}
MovePositions == {<<96, 48>>}
MoveDirections == {"East"}
MoveVelocities == {None, Some(<<48, 0>>)}
WarpPositions == {None, Some(<<144, 96>>)}

\* common::TILE_SIZE, common::SPRITE_SIZE: pixels
TILE_SIZE == 48
SPRITE_SIZE == 48

\* AreaData
Blocked == [type |-> "Blocked"]
Log(message) == [type |-> "Log", message |-> message]
Area(position, size, data) == [position |-> position, size |-> size, data |-> data]

\* MapLayer
MapLayers == {"Ground", "Mask", "Fringe"}

\* the layers of a map, each by the number of tiles it holds: every layer,
\* width x height tiles each
FullLayers(width, height) == [layer \in MapLayers |-> width * height]

\* the start map file of the movement runs: 14 x 8 tiles, a notice on the
\* spawn tile and a wall two tiles east of it
SimMap == [id |-> StartMap, width |-> 14, height |-> 8,
           layers |-> FullLayers(14, 8),
           areas |-> << Area(SpawnPosition, <<TILE_SIZE, TILE_SIZE>>, Log("hot")),
                        Area(<<SpawnPosition[1] + 2 * TILE_SIZE, SpawnPosition[2]>>,
                             <<TILE_SIZE, TILE_SIZE>>, Blocked) >>,
           settings |-> [name |-> "yard", revision |-> 1]]

\* inputs of the Move requests of the movement runs: a position on the spawn
\* tile or on the wall, standing, walking east or walking south
SimMovePositions == {SpawnPosition, <<SpawnPosition[1] + 2 * TILE_SIZE, SpawnPosition[2]>>}
SimVelocities == {None, Some(<<2 * TILE_SIZE, 0>>), Some(<<0, 2 * TILE_SIZE>>)}

\* NetworkMap::new(id, width, height): default settings, no areas, every
\* layer filled
NewMap(id, width, height) ==
    [id |-> id, width |-> width, height |-> height,
     layers |-> FullLayers(width, height), areas |-> <<>>,
     settings |-> [name |-> "", revision |-> 0]]

\* a map file found in ./data/maps
DiskMap == [id |-> OtherMap, width |-> 4, height |-> 3, layers |-> FullLayers(4, 3),
            areas |-> <<>>, settings |-> [name |-> "cave", revision |-> 3]]

\* the payloads clients save: a map as an editor makes it, and one that
\* lacks a layer and is a tile short in another, sent where the store is
\* followed save by save
TownMap == [id |-> StartMap, width |-> 5, height |-> 4, layers |-> FullLayers(5, 4),
            areas |-> <<>>, settings |-> [name |-> "town", revision |-> 2]]
TornMap == [TownMap EXCEPT !.layers = [layer \in {"Ground", "Mask"} |->
                                          IF layer = "Mask" THEN 5 * 4 - 1 ELSE 5 * 4]]
SavePayloads == {TownMap}
AnyPayloads == {TownMap, TornMap}

\* ---------------------------------------------------------------- messages

\* Message::only / list / exclude / everybody: a recipient selector and an event
only(c, m) == [to |-> [kind |-> "only", ids |-> {c}], msg |-> m]
list(S, m) == [to |-> [kind |-> "list", ids |-> S], msg |-> m]
exclude(c, m) == [to |-> [kind |-> "exclude", ids |-> {c}], msg |-> m]
everybody(m) == [to |-> [kind |-> "everybody", ids |-> {}], msg |-> m]

\* ServerMessage
HelloMsg(c) == [type |-> "Hello", client_id |-> c]
ChatMsg(channel, text) == [type |-> "Message", channel |-> channel, text |-> text]
MapData(map) == [type |-> "MapData", map |-> map]
PlayerLeft(c) == [type |-> "PlayerLeft", client_id |-> c]
PlayerJoined(c, data) == [type |-> "PlayerJoined", client_id |-> c, data |-> data]
PlayerMove(c, position, direction, velocity) ==
    [type |-> "PlayerMove", client_id |-> c, position |-> position,
     direction |-> direction, velocity |-> velocity]
ChangeMap(map_id, revision) ==
    [type |-> "ChangeMap", map_id |-> map_id, revision |-> revision]
MapEditorMsg(catalog, id, width, height, settings) ==
    [type |-> "MapEditor", maps |-> catalog, id |-> id, width |-> width,
     height |-> height, settings |-> settings]

\* impl From<PlayerData> for NetworkPlayerData
NetworkPlayerData(p) ==
    [name |-> p.name, sprite |-> p.sprite, position |-> p.position,
     direction |-> p.direction]

\* ------------------------------------------------------------------- state

VARIABLES
    players,        \* GameServer.players: ClientId -> PlayerData
    maps,           \* GameServer.maps: MapId -> NetworkMap
    network_queue,  \* GameServer.network_queue
    time,           \* GameServer.time
    dt,             \* GameServer.dt
    panicked,       \* the loop thread has unwound from a failed unwrap()
    connected,      \* connections the transport has open
    view,           \* per client: the players it shows
    handled,        \* signals dispatched since the last flush
    last,           \* the signal dispatched last
    prev,           \* players, maps and queue length before that dispatch
    handshaken,     \* connections whose Hello was dispatched, not disconnected since
    pc,             \* where the loop thread stands in game_loop
    inbox,          \* the signals the network context deposited, not yet received
    tick,           \* of the current pass of the loop: the phases done, the signals
                    \* waiting at its start, those of them still waiting, the
                    \* events queued
    written,        \* what the last send_all wrote
    deposited,      \* every signal deposited so far
    dispatched,     \* every signal handed to a handler so far
    disk,           \* the map files in ./data/maps: file stem -> NetworkMap
    conversion      \* client: the last function of map.rs applied, to what, and
                    \* what it returned

loopvars == <<pc, inbox, tick, written, deposited, dispatched>>

servervars == <<players, maps, network_queue, time, dt, panicked, connected, view,
                handled, last, prev, handshaken, pc, inbox, tick, written, deposited,
                dispatched, disk>>

vars == <<servervars, conversion>>

\* ----------------------------------------------------------- map helpers

\* HashMap::new()
EmptyMap == [x \in {} |-> x]

\* mutant: the entry stays
Remove_nothing(f, k) == f

\* HashMap::remove, HashMap::insert
Remove(f, k) == [x \in DOMAIN f \ {k} |-> f[x]]
Insert(f, k, v) == [x \in DOMAIN f \cup {k} |-> IF x = k THEN v ELSE f[x]]

\* the keys of players whose record satisfies data.map == map_id
OnMap(pl, map_id) == {cid \in DOMAIN pl : pl[cid].map = map_id}

\* the orders in which iterating a HashMap can yield the keys S
Orders(S) == {o \in [1..Cardinality(S) -> S] : \A i, j \in DOMAIN o : i # j => o[i] # o[j]}

\* ------------------------------------------------------------- load_maps

\* load_maps: what the directory holds, plus a default start map when absent
\* mutant: the directory is taken as found
load_maps_as_found(found) == found

load_maps(found) ==
    IF StartMap \in DOMAIN found THEN found
    ELSE Insert(found, StartMap, NewMap(StartMap, 20, 15))

Disks == {EmptyMap, [i \in {OtherMap} |-> DiskMap]}

\* ----------------------------------------------------------- load_player

\* mutant: the spawn point is the origin
load_player_origin(now) ==
    [name |-> "", sprite |-> 0, position |-> <<0, 0>>, direction |-> "South",
     map |-> StartMap, velocity |-> None, last_message |-> now]

load_player(now) ==
    [name |-> "", sprite |-> 0, position |-> SpawnPosition, direction |-> "South",
     map |-> StartMap, velocity |-> None, last_message |-> now]

\* ----------------------------------------------------------- warp_player

WarpParams(initial, position, direction, velocity) ==
    [initial |-> initial, position |-> position, direction |-> direction,
     velocity |-> velocity]

\* the recipients of the PlayerLeft of a non-initial warp
warp_left_list(pl, client_id, map_id) ==
    {cid \in DOMAIN pl : cid # client_id /\ pl[cid].map = map_id}

\* the players whose PlayerJoined is sent to the mover
warp_joined_set(pl, client_id, map_id) == OnMap(pl, map_id)

\* the recipients of the mover's PlayerJoined and PlayerMove
warp_target_list(pl, map_id) == OnMap(pl, map_id)

\* mutant: the revision is not looked up
warp_revision_zero(mp, map_id) == 0

\* the revision sent with ChangeMap: the stored one, 0 for a map not loaded
warp_revision(mp, map_id) ==
    IF map_id \in DOMAIN mp THEN mp[map_id].settings.revision ELSE 0

\* mutant: the mover is announced before it is told who is there
warp_events_announce_first(left, change, joined, announce, move) ==
    left \o change \o announce \o joined \o move

\* the order in which warp_player queues its events
warp_events(left, change, joined, announce, move) ==
    left \o change \o joined \o announce \o move

\* mutant: the overrides are left aside
warp_move_stored(client_id, player, params) ==
    PlayerMove(client_id, player.position, player.direction, player.velocity)

\* the PlayerMove of a warp: each override where supplied, else the record's
\* value
warp_move(client_id, player, params) ==
    PlayerMove(client_id,
               unwrap_or(params.position, player.position),
               unwrap_or(params.direction, player.direction),
               unwrap_or(params.velocity, player.velocity))

\* mutant: the target position is stored in the record
warp_record_placed(player, map_id, params) ==
    [player EXCEPT !.map = map_id,
                   !.position = unwrap_or(params.position, player.position)]

\* the record of the mover after self.players.get_mut(&client_id).unwrap().map = map_id
warp_record(player, map_id, params) ==
    [player EXCEPT !.map = map_id]

\* warp_player: the players after it and the events it queues, in order.
\* order is the order in which the HashMap yields the occupants.
warp_player(pl, mp, client_id, map_id, params, order) ==
    IF client_id \notin DOMAIN pl
    THEN [players |-> pl, out |-> <<>>]
    ELSE
      LET left == IF params.initial THEN <<>>
                  ELSE <<list(warp_left_list(pl, client_id, map_id), PlayerLeft(client_id))>>
          pl2 == [pl EXCEPT ![client_id] = warp_record(pl[client_id], map_id, params)]
          revision == warp_revision(mp, map_id)
          change == <<only(client_id, ChangeMap(map_id, revision))>>
          joined == [i \in DOMAIN order |->
                       only(client_id, PlayerJoined(order[i], NetworkPlayerData(pl2[order[i]])))]
          announce == <<list(warp_target_list(pl2, map_id),
                             PlayerJoined(client_id, NetworkPlayerData(pl2[client_id])))>>
          player == pl2[client_id]
          move == <<list(warp_target_list(pl2, map_id),
                         warp_move(client_id, player, params))>>
      IN [players |-> pl2, out |-> warp_events(left, change, joined, announce, move)]

\* the iteration orders warp_player can see for a warp of client_id to map_id
WarpOrders(pl, client_id, map_id) ==
    IF client_id \in DOMAIN pl
    THEN Orders(warp_joined_set([pl EXCEPT ![client_id].map = map_id], client_id, map_id))
    ELSE {<<>>}

\* ------------------------------------------------------ handle_disconnect

\* mutant: every remaining player is told
disconnect_left_list_all(pl, map_id) == DOMAIN pl

\* the recipients of the PlayerLeft of a disconnect
disconnect_left_list(pl, map_id) == OnMap(pl, map_id)

\* mutant: the notices go out whether or not a record was found
handle_disconnect_unguarded(pl, client_id) ==
    LET known == client_id \in DOMAIN pl
        pl2 == Remove(pl, client_id)
    IN [players |-> pl2,
        out |-> << list(IF known THEN disconnect_left_list(pl2, pl[client_id].map)
                        ELSE DOMAIN pl2,
                        PlayerLeft(client_id)),
                   exclude(client_id,
                           ChatMsg("Server", (IF known THEN pl[client_id].name ELSE "")
                                             \o " has left the game.")) >>]

handle_disconnect(pl, client_id) ==
    IF client_id \in DOMAIN pl
    THEN LET player == pl[client_id]
             pl2 == Remove(pl, client_id)
         IN [players |-> pl2,
             out |-> << list(disconnect_left_list(pl2, player.map), PlayerLeft(client_id)),
                        exclude(client_id,
                                ChatMsg("Server", player.name \o " has left the game.")) >>]
    ELSE [players |-> pl, out |-> <<>>]

\* --------------------------------------------------------- handle_message

\* ClientMessage
HelloReq(name, sprite) == [type |-> "Hello", name |-> name, sprite |-> sprite]
MessageReq(text) == [type |-> "Message", text |-> text]
RequestMapReq == [type |-> "RequestMap"]
SaveMapReq(map) == [type |-> "SaveMap", map |-> map]
MoveReq(position, direction, velocity) ==
    [type |-> "Move", position |-> position, direction |-> direction,
     velocity |-> velocity]
WarpReq(map_id, position) == [type |-> "Warp", map_id |-> map_id, position |-> position]
MapEditorReq == [type |-> "MapEditor"]

\* the result of a handler: the stores after it, the events it queued, and
\* whether it unwound the loop thread
Result(pl, mp, out, panic) == [players |-> pl, maps |-> mp, out |-> out, panicked |-> panic]

\* mutant: no packet is turned away
not_connected_never(pl, client_id, message) == FALSE

\* the guard of handle_message: a packet other than Hello from a connection
\* with no player record
not_connected(pl, client_id, message) ==
    client_id \notin DOMAIN pl /\ message.type # "Hello"

\* mutant: the handshake warps like a Warp request
hello_warp_params_default == WarpParams(FALSE, None, None, None)

\* WarpParams { initial: true, ..Default::default() }
hello_warp_params == WarpParams(TRUE, None, None, None)

\* mutant: a connection that has a record keeps it, under the new name and sprite
hello_player_resumed(pl, now, client_id, message) ==
    IF client_id \in DOMAIN pl
    THEN [pl[client_id] EXCEPT !.name = message.name, !.sprite = message.sprite]
    ELSE [load_player(now) EXCEPT !.name = message.name, !.sprite = message.sprite]

\* let mut player = self.load_player(&name); player.name = name; player.sprite = sprite
hello_player(pl, now, client_id, message) ==
    [load_player(now) EXCEPT !.name = message.name, !.sprite = message.sprite]

handle_hello(pl, mp, now, client_id, message, order) ==
    LET player == hello_player(pl, now, client_id, message)
        pl2 == Insert(pl, client_id, player)
        w == warp_player(pl2, mp, client_id, player.map, hello_warp_params, order)
    IN Result(w.players, mp,
              <<only(client_id, HelloMsg(client_id))>>
              \o w.out
              \* the welcome text, without its trade mark sign
              \o <<only(client_id, ChatMsg("Server", "Welcome to Game!")),
                   exclude(client_id,
                           ChatMsg("Server", player.name \o " has joined the game."))>>,
              FALSE)

\* mutant: the text goes out without the name
handle_chat_anonymous(pl, mp, client_id, message) ==
    IF client_id \in DOMAIN pl
    THEN Result(pl, mp, <<everybody(ChatMsg("Say", message.text))>>, FALSE)
    ELSE Result(pl, mp, <<>>, FALSE)

handle_chat(pl, mp, client_id, message) ==
    IF client_id \in DOMAIN pl
    THEN Result(pl, mp,
                <<everybody(ChatMsg("Say", pl[client_id].name \o ": " \o message.text))>>,
                FALSE)
    ELSE Result(pl, mp, <<>>, FALSE)

\* mutant: the default map is sent but not stored
handle_request_map_transient(pl, mp, client_id) ==
    IF client_id \in DOMAIN pl
    THEN LET map_id == pl[client_id].map
             map == IF map_id \in DOMAIN mp THEN mp[map_id] ELSE NewMap(map_id, 20, 15)
         IN Result(pl, mp, <<only(client_id, MapData(map))>>, FALSE)
    ELSE Result(pl, mp, <<>>, FALSE)

handle_request_map(pl, mp, client_id) ==
    IF client_id \in DOMAIN pl
    THEN LET map_id == pl[client_id].map
             mp2 == IF map_id \in DOMAIN mp THEN mp
                    ELSE Insert(mp, map_id, NewMap(map_id, 20, 15))
         IN Result(pl, mp2, <<only(client_id, MapData(mp2[map_id]))>>, FALSE)
    ELSE Result(pl, mp, <<>>, FALSE)

\* mutant: the payload is stored under its own identifier
handle_save_map_by_payload_id(pl, mp, client_id, message) ==
    IF client_id \notin DOMAIN pl
    THEN Result(pl, mp, <<>>, TRUE)
    ELSE LET map_id == pl[client_id].map
             mp2 == Insert(mp, message.map.id, message.map)
         IN Result(pl, mp2, <<list(OnMap(pl, map_id), MapData(message.map))>>, FALSE)

handle_save_map(pl, mp, client_id, message) ==
    IF client_id \notin DOMAIN pl
    THEN Result(pl, mp, <<>>, TRUE)
    ELSE LET map_id == pl[client_id].map
             mp2 == Insert(mp, map_id, message.map)
         IN Result(pl, mp2, <<list(OnMap(pl, map_id), MapData(message.map))>>, FALSE)

handle_move(pl, mp, client_id, message) ==
    IF client_id \notin DOMAIN pl
    THEN Result(pl, mp, <<>>, TRUE)
    ELSE LET pl2 == [pl EXCEPT ![client_id].position = message.position,
                               ![client_id].velocity = message.velocity]
             map_id == pl2[client_id].map
         IN Result(pl2, mp,
                   <<list(OnMap(pl2, map_id),
                          PlayerMove(client_id, message.position, message.direction,
                                     message.velocity))>>,
                   FALSE)

\* mutant: the warp loads a default map under an identifier not in the store
handle_warp_loading(pl, mp, client_id, message, order) ==
    LET w == warp_player(pl, mp, client_id, message.map_id,
                         WarpParams(FALSE, message.position, None, None), order)
    IN Result(w.players,
              IF message.map_id \in DOMAIN mp THEN mp
              ELSE Insert(mp, message.map_id, NewMap(message.map_id, 20, 15)),
              w.out, FALSE)

handle_warp(pl, mp, client_id, message, order) ==
    LET w == warp_player(pl, mp, client_id, message.map_id,
                         WarpParams(FALSE, message.position, None, None), order)
    IN Result(w.players, mp, w.out, FALSE)

handle_map_editor(pl, mp, client_id) ==
    IF client_id \notin DOMAIN pl \/ pl[client_id].map \notin DOMAIN mp
    THEN Result(pl, mp, <<>>, TRUE)
    ELSE LET map_id == pl[client_id].map
             catalog == [id \in DOMAIN mp |-> mp[id].settings.name]
             map == mp[map_id]
         IN Result(pl, mp,
                   <<only(client_id,
                          MapEditorMsg(catalog, map_id, map.width, map.height, map.settings))>>,
                   FALSE)

handle_message(pl, mp, now, client_id, message, order) ==
    IF not_connected(pl, client_id, message)
    THEN Result(pl, mp, <<>>, FALSE)
    ELSE CASE message.type = "Hello" -> handle_hello(pl, mp, now, client_id, message, order)
           [] message.type = "Message" -> handle_chat(pl, mp, client_id, message)
           [] message.type = "RequestMap" -> handle_request_map(pl, mp, client_id)
           [] message.type = "SaveMap" -> handle_save_map(pl, mp, client_id, message)
           [] message.type = "Move" -> handle_move(pl, mp, client_id, message)
           [] message.type = "Warp" -> handle_warp(pl, mp, client_id, message, order)
           [] message.type = "MapEditor" -> handle_map_editor(pl, mp, client_id)

\* the iteration orders the handler of message can see
MessageOrders(pl, client_id, message) ==
    CASE message.type = "Hello" ->
           WarpOrders(Insert(pl, client_id, load_player(0)), client_id, StartMap)
      [] message.type = "Warp" -> WarpOrders(pl, client_id, message.map_id)
      [] OTHER -> {<<>>}

\* ----------------------------------------------------------------- save_map

\* save_map: the map stored under id is written to the file named after id;
\* ok is whether serialising and fs::write succeed
save_map(files, mp, id, ok) ==
    IF id \in DOMAIN mp /\ ok THEN Insert(files, id, mp[id]) ELSE files

\* the outcomes the file system can give a request
WriteResults(message) == IF message.type = "SaveMap" THEN BOOLEAN ELSE {TRUE}

\* the directory after a request: only SaveMap of an Active connection
\* writes, the file of the sender's map, after the store was updated
disk_after(files, pl, mp2, client_id, message, ok) ==
    IF message.type = "SaveMap" /\ client_id \in DOMAIN pl
    THEN save_map(files, mp2, pl[client_id].map, ok)
    ELSE files

\* mutant: a failed save unwinds the handler
save_error_unwinds_always(pl, client_id, message, ok) ==
    message.type = "SaveMap" /\ client_id \in DOMAIN pl /\ ~ok

\* if let Err(e) = self.save_map(map_id) { log::error!(..) }: the error is
\* logged and the handler goes on
save_error_unwinds(pl, client_id, message, ok) == FALSE

\* ---------------------------------------------------------- update_players

\* the clock counts units of 1/UnitsPerSecond s; Duration::from_secs(1)
Cooldown == 1 * UnitsPerSecond

\* Rect::new(origin, size).to_box2d()
Box(origin, size) ==
    [min |-> origin, max |-> <<origin[1] + size[1], origin[2] + size[2]>>]

\* Box2D::is_empty, Box2D::contains_box, Box2D::intersects
is_empty(b) == ~(b.max[1] > b.min[1] /\ b.max[2] > b.min[2])
contains_box(a, b) ==
    \/ is_empty(b)
    \/ /\ a.min[1] <= b.min[1] /\ b.max[1] <= a.max[1]
       /\ a.min[2] <= b.min[2] /\ b.max[2] <= a.max[2]
intersects(a, b) ==
    /\ a.min[1] < b.max[1] /\ a.max[1] > b.min[1]
    /\ a.min[2] < b.max[2] /\ a.max[2] > b.min[2]

\* the bottom half of the sprite at a position
sprite_box(position) ==
    Box(<<position[1], position[2] + SPRITE_SIZE \div 2>>,
        <<SPRITE_SIZE, SPRITE_SIZE \div 2>>)

\* Rect::new(Point2D::zero(), map_size).to_box2d()
map_box(map) == Box(<<0, 0>>, <<map.width * TILE_SIZE, map.height * TILE_SIZE>>)

area_box(attrib) == Box(attrib.position, attrib.size)

\* mutant: only the map's bounds are looked at
valid_in_bounds(map, sprite) == contains_box(map_box(map), sprite)

\* let valid = map_box.contains_box(&sprite) && !map.areas.iter().any(..)
valid(map, sprite) ==
    /\ contains_box(map_box(map), sprite)
    /\ ~\E i \in DOMAIN map.areas :
           /\ map.areas[i].data.type = "Blocked"
           /\ intersects(area_box(map.areas[i]), sprite)

\* velocity * dt.as_secs_f32()
offset(velocity, step) ==
    <<(velocity[1] * step) \div UnitsPerSecond, (velocity[2] * step) \div UnitsPerSecond>>

\* mutant: the candidate is taken as it is
resolve_position_unchecked(player, map, step) ==
    IF player.velocity = None THEN player.position
    ELSE LET off == offset(player.velocity[1], step)
         IN <<player.position[1] + off[1], player.position[2] + off[2]>>

\* the position of a player after the movement part of the tick
resolve_position(player, map, step) ==
    IF player.velocity = None THEN player.position
    ELSE LET off == offset(player.velocity[1], step)
             new_position == <<player.position[1] + off[1], player.position[2] + off[2]>>
         IN IF valid(map, sprite_box(new_position)) THEN new_position
            ELSE player.position

\* for attrib in map.areas.iter(): the player and the packets after the areas
\* from index i on; wall is what Instant::now() reads inside elapsed()
RECURSIVE log_areas(_, _, _, _, _, _, _)
log_areas(id, player, packets, areas, i, now, wall) ==
    IF i > Len(areas) THEN [player |-> player, packets |-> packets]
    ELSE IF /\ areas[i].data.type = "Log"
            /\ intersects(area_box(areas[i]), sprite_box(player.position))
            /\ wall - player.last_message > Cooldown
         THEN log_areas(id, [player EXCEPT !.last_message = now],
                        Append(packets,
                               only(id, ChatMsg("Server", areas[i].data.message))),
                        areas, i + 1, now, wall)
         ELSE log_areas(id, player, packets, areas, i + 1, now, wall)

\* mutant: a player whose move is rejected is stopped
move_player_halting(player, map, step) ==
    IF resolve_position(player, map, step) = player.position
    THEN [player EXCEPT !.velocity = None]
    ELSE [player EXCEPT !.position = resolve_position(player, map, step)]

\* the record after the movement part of the tick: if valid { player.position
\* = new_position; }
move_player(player, map, step) ==
    [player EXCEPT !.position = resolve_position(player, map, step)]

\* the body of `for (id, player) in &mut self.players`
update_player(id, player, mp, packets, step, now, wall) ==
    IF player.map \notin DOMAIN mp THEN [player |-> player, packets |-> packets]
    ELSE LET map == mp[player.map]
             moved == move_player(player, map, step)
         IN log_areas(id, moved, packets, map.areas, 1, now, wall)

\* update_players: the players and the local packets after visiting the
\* players in the order given, from index i on
RECURSIVE update_players(_, _, _, _, _, _, _, _)
update_players(pl, mp, packets, order, i, step, now, wall) ==
    IF i > Len(order) THEN [players |-> pl, packets |-> packets]
    ELSE LET r == update_player(order[i], pl[order[i]], mp, packets, step, now, wall)
         IN update_players([pl EXCEPT ![order[i]] = r.player], mp, r.packets,
                           order, i + 1, step, now, wall)

\* mutant: the packets of the tick are queued
update_players_queued_all(packets) == packets

\* what update_players appends to the outbound queue: `packets` is a local
\* Vec that is dropped when the function returns
update_players_queued(packets) == <<>>

\* ---------------------------------------------------------------- send_all

\* Message::write: the connections a selector resolves to
Recipients(to, conns) ==
    CASE to.kind = "only" -> to.ids \cap conns
      [] to.kind = "list" -> to.ids \cap conns
      [] to.kind = "exclude" -> conns \ to.ids
      [] to.kind = "everybody" -> conns

\* what a client shows after an event: cleared by its ChangeMap, a player
\* added by PlayerJoined and removed by PlayerLeft
ClientApply(v, m) ==
    CASE m.type = "ChangeMap" -> {}
      [] m.type = "PlayerJoined" -> v \cup {m.client_id}
      [] m.type = "PlayerLeft" -> v \ {m.client_id}
      [] OTHER -> v

RECURSIVE Deliver(_, _, _)
Deliver(v, q, conns) ==
    IF q = <<>> THEN v
    ELSE Deliver([c \in DOMAIN v |->
                    IF c \in Recipients(Head(q).to, conns)
                    THEN ClientApply(v[c], Head(q).msg) ELSE v[c]],
                 Tail(q), conns)

\* ------------------------------------------------------------------ actions

\* GameServer::new on one of the data directories given
InitOn(disks) ==
    /\ players = EmptyMap
    /\ \E found \in disks : disk = found /\ maps = load_maps(found)
    /\ network_queue = <<>>
    /\ time = 0
    /\ dt = 0
    /\ panicked = FALSE
    /\ connected = {}
    /\ view = [c \in ClientIds |-> {}]
    /\ handled = 0
    /\ last = [kind |-> "Init", client |-> 0, message |-> [type |-> "None"]]
    /\ prev = [players |-> EmptyMap, maps |-> EmptyMap, qlen |-> 0]
    /\ handshaken = {}
    /\ pc = "top"
    /\ inbox = <<>>
    /\ tick = [phases |-> <<>>, start |-> 0, avail |-> 0, enq |-> <<>>]
    /\ written = <<>>
    /\ deposited = <<>>
    /\ dispatched = <<>>
    /\ conversion = [op |-> "none"]

Init == InitOn(Disks)

Snapshot == [players |-> players, maps |-> maps, qlen |-> Len(network_queue)]

\* the count of the signals dispatched since the last flush, kept up to MaxDeposits
Counted(n) == IF n < MaxDeposits THEN n + 1 ELSE n

\* a log of signals, kept up to MaxDeposits entries
Logged(log, x) == IF Len(log) < MaxDeposits THEN Append(log, x) ELSE log

\* NetworkSignal::Connected(client_id) => ()
Connected(c) ==
    /\ ~panicked
    /\ c \notin connected
    /\ connected' = connected \cup {c}
    /\ handled' = Counted(handled)
    /\ last' = [kind |-> "Connected", client |-> c, message |-> [type |-> "None"]]
    /\ prev' = Snapshot
    /\ UNCHANGED <<conversion, disk, players, maps, network_queue, time, dt, panicked, view,
                   handshaken>>

\* NetworkSignal::Disconnected(client_id) => self.handle_disconnect(client_id)
Disconnected(c) ==
    /\ ~panicked
    /\ c \in connected
    /\ LET r == handle_disconnect(players, c)
       IN /\ players' = r.players
          /\ network_queue' = network_queue \o r.out
    /\ connected' = connected \ {c}
    /\ view' = [view EXCEPT ![c] = {}]
    /\ handshaken' = handshaken \ {c}
    /\ handled' = Counted(handled)
    /\ last' = [kind |-> "Disconnected", client |-> c, message |-> [type |-> "None"]]
    /\ prev' = Snapshot
    /\ UNCHANGED <<conversion, disk, maps, time, dt, panicked>>

\* NetworkSignal::Message(client_id, message) => self.handle_message(client_id, message)
Dispatch(c, message) ==
    /\ ~panicked
    /\ c \in connected
    /\ \E order \in MessageOrders(players, c, message), ok \in WriteResults(message) :
         LET r == handle_message(players, maps, time, c, message, order)
         IN /\ players' = r.players
            /\ maps' = r.maps
            /\ network_queue' = network_queue \o r.out
            /\ panicked' = (r.panicked \/ save_error_unwinds(players, c, message, ok))
            /\ disk' = disk_after(disk, players, r.maps, c, message, ok)
    /\ handled' = Counted(handled)
    /\ last' = [kind |-> "Message", client |-> c, message |-> message]
    /\ handshaken' = IF message.type = "Hello" THEN handshaken \cup {c} ELSE handshaken
    /\ prev' = Snapshot
    /\ UNCHANGED <<conversion, time, dt, connected, view>>

Hello(c) == \E h \in HelloInputs : Dispatch(c, HelloReq(h[1], h[2]))
Chat(c) == \E text \in ChatTexts : Dispatch(c, MessageReq(text))
RequestMap(c) == Dispatch(c, RequestMapReq)
SaveMap(c) == \E map \in SavePayloads : Dispatch(c, SaveMapReq(map))
Move(c) ==
    \E position \in MovePositions, direction \in MoveDirections, velocity \in MoveVelocities :
        Dispatch(c, MoveReq(position, direction, velocity))
Warp(c) ==
    \E map_id \in MapIds, position \in WarpPositions : Dispatch(c, WarpReq(map_id, position))
MapEditor(c) == Dispatch(c, MapEditorReq)

\* send_all: every queued message is written, the queue is drained
Flush ==
    /\ ~panicked
    /\ handled > 0
    /\ network_queue' = <<>>
    /\ handled' = 0
    /\ last' = [kind |-> "SendAll", client |-> 0, message |-> [type |-> "None"]]
    /\ prev' = Snapshot
    /\ UNCHANGED <<conversion, disk, players, maps, time, dt, panicked, connected, handshaken>>

SendAll == Flush /\ UNCHANGED view

\* send_all, and every client applying what it is sent
SendAllDeliver == Flush /\ view' = Deliver(view, network_queue, connected)

\* the dispatcher: one signal, then the flush
Next ==
    \/ \E c \in ClientIds : handled < MaxPerTick /\ Connected(c) /\ UNCHANGED loopvars
    \/ \E c \in ClientIds : handled < MaxPerTick /\ Disconnected(c) /\ UNCHANGED loopvars
    \/ \E c \in ClientIds : handled < MaxPerTick /\ Hello(c) /\ UNCHANGED loopvars
    \/ \E c \in ClientIds : handled < MaxPerTick /\ Chat(c) /\ UNCHANGED loopvars
    \/ \E c \in ClientIds : handled < MaxPerTick /\ RequestMap(c) /\ UNCHANGED loopvars
    \/ \E c \in ClientIds : handled < MaxPerTick /\ SaveMap(c) /\ UNCHANGED loopvars
    \/ \E c \in ClientIds : handled < MaxPerTick /\ Move(c) /\ UNCHANGED loopvars
    \/ \E c \in ClientIds : handled < MaxPerTick /\ Warp(c) /\ UNCHANGED loopvars
    \/ \E c \in ClientIds : handled < MaxPerTick /\ MapEditor(c) /\ UNCHANGED loopvars
    \/ SendAll /\ UNCHANGED loopvars

Spec == Init /\ [][Next]_vars

\* handshakes, warps and disconnects in bursts, with the clients' views
NextView ==
    \/ \E c \in ClientIds : handled < MaxBurst /\ Connected(c) /\ UNCHANGED loopvars
    \/ \E c \in ClientIds : handled < MaxBurst /\ Disconnected(c) /\ UNCHANGED loopvars
    \/ \E c \in ClientIds : handled < MaxBurst /\ Hello(c) /\ UNCHANGED loopvars
    \/ \E c \in ClientIds : handled < MaxBurst /\ Warp(c) /\ UNCHANGED loopvars
    \/ \E c \in ClientIds : handled < MaxBurst /\ Chat(c) /\ UNCHANGED loopvars
    \/ SendAllDeliver /\ UNCHANGED loopvars

SpecView == Init /\ [][NextView]_vars

\* SaveMap with any payload
SaveAny(c) == \E map \in AnyPayloads : Dispatch(c, SaveMapReq(map))

\* the dispatcher where the maps are saved, requested and warped between:
\* payloads of any shape, writes that fail
NextSave ==
    \/ \E c \in ClientIds : handled < MaxPerTick /\ Connected(c) /\ UNCHANGED loopvars
    \/ \E c \in ClientIds : handled < MaxPerTick /\ Hello(c) /\ UNCHANGED loopvars
    \/ \E c \in ClientIds : handled < MaxPerTick /\ Warp(c) /\ UNCHANGED loopvars
    \/ \E c \in ClientIds : handled < MaxPerTick /\ SaveAny(c) /\ UNCHANGED loopvars
    \/ \E c \in ClientIds : handled < MaxPerTick /\ RequestMap(c) /\ UNCHANGED loopvars
    \/ SendAll /\ UNCHANGED loopvars

SpecSave == Init /\ [][NextSave]_vars

\* ---------------------------------------------------------------- game_loop

\* mutant: the flush comes before the simulation
loop_after_send_first(phase) ==
    CASE phase = "top" -> "recv"
      [] phase = "recv" -> "send"
      [] phase = "send" -> "update"
      [] phase = "update" -> "top"

\* the body of `loop`: the clock, the drain until try_recv yields None,
\* update_players, send_all, the sleep
loop_after(phase) ==
    CASE phase = "top" -> "recv"
      [] phase = "recv" -> "update"
      [] phase = "update" -> "send"
      [] phase = "send" -> "top"

\* mutant: the newest signal is received first
try_recv_newest(channel) ==
    IF channel = <<>> THEN [signal |-> None, rest |-> channel]
    ELSE [signal |-> Some(channel[Len(channel)]),
          rest |-> SubSeq(channel, 1, Len(channel) - 1)]

\* try_recv: the oldest signal waiting, None when there is none
try_recv(channel) ==
    IF channel = <<>> THEN [signal |-> None, rest |-> channel]
    ELSE [signal |-> Some(Head(channel)), rest |-> Tail(channel)]

\* mutant: the queue is iterated, not drained
send_all_keep(queue) == [written |-> queue, queue |-> queue]

\* send_all: for message in self.network_queue.drain(..) { message.write(..) }
send_all(queue) == [written |-> queue, queue |-> <<>>]

\* the events the step appends to the outbound queue
Appended == SubSeq(network_queue', Len(network_queue) + 1, Len(network_queue'))

\* let now = Instant::now(); let dt = now - self.time; self.time = now; self.dt = dt
LoopTop(d) ==
    /\ ~panicked
    /\ pc = "top"
    /\ time + d <= MaxTime
    /\ time' = time + d
    /\ dt' = d
    /\ pc' = loop_after("top")
    /\ tick' = [phases |-> <<>>, start |-> Len(inbox), avail |-> Len(inbox), enq |-> <<>>]
    /\ last' = [kind |-> "Top", client |-> 0, message |-> [type |-> "None"]]
    /\ prev' = Snapshot
    /\ UNCHANGED <<conversion, disk, players, maps, network_queue, panicked, connected, view, handled,
                   handshaken, inbox, written, deposited, dispatched>>

\* the signals the network context can deposit
Signal(kind, c, message) == [kind |-> kind, client |-> c, message |-> message]
Signals ==
    {Signal("Connected", c, [type |-> "None"]) : c \in Senders}
    \cup {Signal("Disconnected", c, [type |-> "None"]) : c \in Senders}
    \cup {Signal("Message", c, HelloReq("ann", 1)) : c \in Senders}
    \cup {Signal("Message", c, MessageReq(text)) : c \in Senders, text \in ChatTexts}

\* the connections open at the transport once the signals were deposited
RECURSIVE open_after(_, _)
open_after(conns, signals) ==
    IF signals = <<>> THEN conns
    ELSE open_after(CASE Head(signals).kind = "Connected" -> conns \cup {Head(signals).client}
                      [] Head(signals).kind = "Disconnected" -> conns \ {Head(signals).client}
                      [] OTHER -> conns,
                    Tail(signals))

\* the network context deposits a signal: a connection opens, or an open one
\* sends a packet or closes
DepositAny(signal) ==
    /\ Len(inbox) < MaxInbox
    /\ (signal.kind = "Connected") = (signal.client \notin open_after(connected, inbox))
    /\ inbox' = Append(inbox, signal)
    /\ deposited' = Logged(deposited, signal)
    /\ UNCHANGED <<conversion, disk, players, maps, network_queue, time, dt, panicked, connected, view,
                   handled, last, prev, handshaken, pc, tick, written, dispatched>>

\* a deposit while the log of the deposits has room
Deposit(signal) == Len(deposited) < MaxDeposits /\ DepositAny(signal)

\* what a signal taken from the channel leaves behind
Received(rest) ==
    /\ inbox' = rest
    /\ dispatched' = Logged(dispatched, last')
    /\ tick' = [tick EXCEPT !.avail = IF @ > 0 THEN @ - 1 ELSE 0,
                            !.enq = @ \o Appended]
    /\ UNCHANGED <<pc, written, deposited>>

\* while let Some(signal) = self.try_recv() { match signal { .. } }
RecvConnected ==
    /\ pc = "recv"
    /\ LET r == try_recv(inbox)
       IN /\ r.signal # None /\ r.signal[1].kind = "Connected"
          /\ Connected(r.signal[1].client)
          /\ Received(r.rest)

RecvDisconnected ==
    /\ pc = "recv"
    /\ LET r == try_recv(inbox)
       IN /\ r.signal # None /\ r.signal[1].kind = "Disconnected"
          /\ Disconnected(r.signal[1].client)
          /\ Received(r.rest)

RecvMessage ==
    /\ pc = "recv"
    /\ LET r == try_recv(inbox)
       IN /\ r.signal # None /\ r.signal[1].kind = "Message"
          /\ Dispatch(r.signal[1].client, r.signal[1].message)
          /\ Received(r.rest)

\* try_recv yields None: the drain is over
RecvNone ==
    /\ ~panicked
    /\ pc = "recv"
    /\ try_recv(inbox).signal = None
    /\ pc' = loop_after("recv")
    /\ tick' = [tick EXCEPT !.phases = Append(@, "drain")]
    /\ UNCHANGED <<conversion, disk, players, maps, network_queue, time, dt, panicked, connected, view,
                   handled, last, prev, handshaken, inbox, written, deposited, dispatched>>

\* self.update_players()
UpdatePlayers ==
    /\ ~panicked
    /\ pc = "update"
    /\ \E order \in Orders(DOMAIN players), lag \in 0..MaxLag :
         LET r == update_players(players, maps, <<>>, order, 1, dt, time, time + lag)
         IN /\ players' = r.players
            /\ network_queue' = network_queue \o update_players_queued(r.packets)
    /\ pc' = loop_after("update")
    /\ tick' = [tick EXCEPT !.phases = Append(@, "update"), !.enq = @ \o Appended]
    /\ last' = [kind |-> "Update", client |-> 0, message |-> [type |-> "None"]]
    /\ prev' = Snapshot
    /\ UNCHANGED <<conversion, disk, maps, time, dt, panicked, connected, view, handled, handshaken,
                   inbox, written, deposited, dispatched>>

\* self.send_all(), then the sleep
LoopSendAll ==
    /\ ~panicked
    /\ pc = "send"
    /\ LET r == send_all(network_queue)
       IN /\ written' = r.written
          /\ network_queue' = r.queue
    /\ pc' = loop_after("send")
    /\ tick' = [tick EXCEPT !.phases = Append(@, "send")]
    /\ handled' = 0
    /\ last' = [kind |-> "SendAll", client |-> 0, message |-> [type |-> "None"]]
    /\ prev' = Snapshot
    /\ UNCHANGED <<conversion, disk, players, maps, time, dt, panicked, connected, view, handshaken,
                   inbox, deposited, dispatched>>

\* the loop with the network context beside it: the clock stands still
NextLoop ==
    \/ \E signal \in Signals : Deposit(signal)
    \/ LoopTop(0)
    \/ RecvConnected
    \/ RecvDisconnected
    \/ RecvMessage
    \/ RecvNone
    \/ UpdatePlayers
    \/ LoopSendAll

SpecLoop == Init /\ [][NextLoop]_vars

\* the signals that queue nothing while no connection has a record
QuietSignals == {signal \in Signals : signal.message.type # "Hello"}

\* a step of the loop thread
LoopStep ==
    \/ LoopTop(0)
    \/ RecvConnected
    \/ RecvDisconnected
    \/ RecvMessage
    \/ RecvNone
    \/ UpdatePlayers
    \/ LoopSendAll

\* the loop, with a network context that deposits whenever the channel has room
NextLive ==
    \/ \E signal \in QuietSignals : DepositAny(signal)
    \/ LoopStep

\* the loop thread is never held back: it runs until the process ends; the
\* network context deposits when it has something
SpecLive == Init /\ [][NextLive]_vars /\ WF_vars(LoopStep)

\* a signal that reaches the loop as soon as it is sent
Direct ==
    /\ pc = "recv"
    /\ handled < MaxPerTick
    /\ tick' = [tick EXCEPT !.enq = @ \o Appended]
    /\ UNCHANGED <<pc, inbox, written, deposited, dispatched>>

SimMove(c) ==
    \E position \in SimMovePositions, direction \in MoveDirections,
       velocity \in SimVelocities :
        Dispatch(c, MoveReq(position, direction, velocity))

InitSim == InitOn({[i \in {StartMap} |-> SimMap]})

\* the loop on a map with a wall and a notice: players join and walk
NextSim ==
    \/ \E d \in 0..MaxDt : LoopTop(d)
    \/ \E c \in ClientIds : Connected(c) /\ Direct
    \/ \E c \in ClientIds : Dispatch(c, HelloReq("ann", 1)) /\ Direct
    \/ \E c \in Walkers : SimMove(c) /\ Direct
    \/ RecvNone
    \/ UpdatePlayers
    \/ LoopSendAll

SpecSim == InitSim /\ [][NextSim]_vars

\* ------------------------------------------------------- client: map.rs

\* ivec2(x, y)
ivec2(x, y) == <<x, y>>

\* bit i of a u8
Bit(n, i) == (n \div 2^i) % 2

\* n & m on u8
RECURSIVE BitAndFrom(_, _, _)
BitAndFrom(n, m, i) ==
    IF i > 7 THEN 0 ELSE Bit(n, i) * Bit(m, i) * 2^i + BitAndFrom(n, m, i + 1)

BitAnd(n, m) == BitAndFrom(n, m, 0)

\* OFFSETS, indexed from 0
OFFSETS ==
    [i \in 0..7 |->
        <<ivec2(0, -1), ivec2(1, 0), ivec2(0, 1), ivec2(-1, 0),
          ivec2(1, -1), ivec2(1, 1), ivec2(-1, 1), ivec2(-1, -1)>>[i + 1]]

autotile_a(neighbors) ==
    IF neighbors = 0 THEN ivec2(0, 0)
    ELSE LET n == BitAnd(neighbors, 1 + 8 + 128)
         IN CASE n = 0 -> ivec2(0, 2)
              [] n = 128 -> ivec2(0, 2)
              [] n = 1 -> ivec2(0, 4)
              [] n = 8 -> ivec2(2, 2)
              [] n = 9 -> ivec2(2, 0)
              [] n = 137 -> ivec2(2, 4)
              [] n = 136 -> ivec2(2, 2)
              [] n = 129 -> ivec2(0, 4)

autotile_b(neighbors) ==
    IF neighbors = 0 THEN ivec2(1, 0)
    ELSE LET n == BitAnd(neighbors, 1 + 2 + 16)
         IN CASE n = 0 -> ivec2(3, 2)
              [] n = 16 -> ivec2(3, 2)
              [] n = 1 -> ivec2(3, 4)
              [] n = 2 -> ivec2(1, 2)
              [] n = 3 -> ivec2(3, 0)
              [] n = 19 -> ivec2(1, 4)
              [] n = 18 -> ivec2(1, 2)
              [] n = 17 -> ivec2(3, 4)

autotile_c(neighbors) ==
    IF neighbors = 0 THEN ivec2(0, 1)
    ELSE LET n == BitAnd(neighbors, 4 + 8 + 64)
         IN CASE n = 0 -> ivec2(0, 5)
              [] n = 64 -> ivec2(0, 5)
              [] n = 4 -> ivec2(0, 3)
              [] n = 8 -> ivec2(2, 5)
              [] n = 12 -> ivec2(2, 1)
              [] n = 76 -> ivec2(2, 3)
              [] n = 72 -> ivec2(2, 5)
              [] n = 68 -> ivec2(0, 3)

autotile_d(neighbors) ==
    IF neighbors = 0 THEN ivec2(1, 1)
    ELSE LET n == BitAnd(neighbors, 4 + 2 + 32)
         IN CASE n = 0 -> ivec2(3, 5)
              [] n = 32 -> ivec2(3, 5)
              [] n = 4 -> ivec2(3, 3)
              [] n = 2 -> ivec2(1, 5)
              [] n = 6 -> ivec2(3, 1)
              [] n = 38 -> ivec2(1, 3)
              [] n = 34 -> ivec2(1, 5)
              [] n = 36 -> ivec2(3, 3)

\* enum Tile
TileEmpty == [tile |-> "Empty"]
TileBasic(uv) == [tile |-> "Basic", uv |-> uv]
TileAutotile(base, cache) == [tile |-> "Autotile", base |-> base, cache |-> cache]

\* [IVec2; 4]::default()
DefaultCache == [i \in 1..4 |-> ivec2(0, 0)]

\* Tile::autotile
Tile_autotile(uv) == TileAutotile(uv, DefaultCache)

\* Tile::get_uv
get_uv(t) ==
    CASE t.tile = "Empty" -> None
      [] t.tile = "Basic" -> Some(t.uv)
      [] t.tile = "Autotile" -> Some(t.base)

\* Tile::update_autotile
update_autotile(t, neighbors) ==
    IF t.tile = "Autotile"
    THEN LET base == ivec2(t.base[1] * 2, t.base[2] * 2)
             plus(a, b) == ivec2(a[1] + b[1], a[2] + b[2])
         IN TileAutotile(t.base, <<plus(base, autotile_a(neighbors)),
                                   plus(base, autotile_b(neighbors)),
                                   plus(base, autotile_c(neighbors)),
                                   plus(base, autotile_d(neighbors))>>)
    ELSE t

\* enum TileAttribute of the client, and its default
TileAttributeNone == "TileAttribute::None"
TileAttributeBlocked == "TileAttribute::Blocked"

\* enum RemoteTile and enum TileAttribute of the network crate
RemoteEmpty == [remote |-> "Empty"]
RemoteBasic(uv) == [remote |-> "Basic", uv |-> uv]
RemoteAutotile(uv) == [remote |-> "Autotile", uv |-> uv]
RemoteAttributeNone == "RemoteAttribute::None"
RemoteAttributeBlocked == "RemoteAttribute::Blocked"

\* a u32 in two halves of 16 bits
Half == 2^16

\* a * b on u32: the low 32 bits of the product and whether bits were lost.
\* Computed in halves, for factors whose low halves are small.
u32_mul(a, b) ==
    LET ah == a \div Half
        al == a % Half
        bh == b \div Half
        bl == b % Half
        cross == ah * bl + al * bh
    IN [value |-> (cross % Half) * Half + al * bl,
        overflow |-> (ah * bh > 0 \/ cross >= Half)]

\* what a function of map.rs returns: a value, an error, or the thread unwinds
Ok(v) == [result |-> "Ok", value |-> v]
Err(e) == [result |-> "Err", error |-> e]
Panic == [result |-> "Panic"]

\* vec![x; n]
vec(x, n) == [i \in 1..n |-> x]

\* MapLayer::count()
MapLayer_count == Cardinality(MapLayers)

\* Map::new; checks: the build has overflow checks (debug), or wraps (release)
Map_new(width, height, checks) ==
    LET size == u32_mul(width, height)
    IN IF size.overflow /\ checks THEN Panic
       ELSE Ok([width |-> width, height |-> height,
                layers |-> [layer \in MapLayers |-> vec(TileEmpty, size.value)],
                attributes |-> vec(TileAttributeNone, size.value)])

\* Map::valid
Map_valid(map, pos) ==
    pos[1] >= 0 /\ pos[1] < map.width /\ pos[2] >= 0 /\ pos[2] < map.height

\* Map::index, as a position in a sequence that starts at 1
Map_index(map, position) ==
    IF ~Map_valid(map, position) THEN None
    ELSE Some(position[1] + position[2] * map.width + 1)

\* the bit of neighbor i of the tile at position, in update_autotiles
neighbor_bit(map, layer, position, i) ==
    LET neighbor == ivec2(position[1] + OFFSETS[i][1], position[2] + OFFSETS[i][2])
        uv == get_uv(map.layers[layer][Map_index(map, position)[1]])
    IN IF Map_valid(map, neighbor)
       THEN LET other == get_uv(map.layers[layer][Map_index(map, neighbor)[1]])
            IN IF uv # None /\ other # None /\ uv[1] = other[1] THEN 2^i ELSE 0
       ELSE 2^i

RECURSIVE neighbors_from(_, _, _, _)
neighbors_from(map, layer, position, i) ==
    IF i > 7 THEN 0
    ELSE neighbor_bit(map, layer, position, i) + neighbors_from(map, layer, position, i + 1)

\* Map::update_autotiles: unwinds when a layer is missing or a position of
\* the grid has no tile, else every tile of the grid has its cache set
update_autotiles(map) ==
    IF \/ DOMAIN map.layers # MapLayers
       \/ \E x \in 0..(map.width - 1), y \in 0..(map.height - 1), layer \in MapLayers :
             Map_index(map, ivec2(x, y))[1] > Len(map.layers[layer])
    THEN Panic
    ELSE Ok([map EXCEPT !.layers =
                [layer \in MapLayers |->
                    [k \in 1..Len(map.layers[layer]) |->
                        LET position == ivec2((k - 1) % map.width, (k - 1) \div map.width)
                        IN IF Map_valid(map, position)
                           THEN update_autotile(map.layers[layer][k],
                                                neighbors_from(map, layer, position, 0))
                           ELSE map.layers[layer][k]]]])

\* impl From<RemoteTile> for Tile
tile_from(remote) ==
    CASE remote.remote = "Empty" -> TileEmpty
      [] remote.remote = "Basic" -> TileBasic(remote.uv)
      [] remote.remote = "Autotile" -> TileAutotile(remote.uv, DefaultCache)

\* impl From<RemoteAttribute> for TileAttribute
attribute_from(attribute) ==
    CASE attribute = RemoteAttributeNone -> TileAttributeNone
      [] attribute = RemoteAttributeBlocked -> TileAttributeNone

\* impl TryFrom<RemoteMap> for Map
try_from(value, checks) ==
    LET size == u32_mul(value.width, value.height)
    IN IF size.overflow /\ checks THEN Panic
       ELSE IF Len(value.attributes) # size.value THEN Err("IncorrectSize")
       ELSE IF Cardinality(DOMAIN value.layers) # MapLayer_count THEN Err("IncorrectLayers")
       ELSE IF \E layer \in DOMAIN value.layers : Len(value.layers[layer]) # size.value
            THEN Err("IncorrectSize")
       ELSE update_autotiles(
                [width |-> value.width, height |-> value.height,
                 layers |-> [layer \in DOMAIN value.layers |->
                                [i \in 1..Len(value.layers[layer]) |->
                                    tile_from(value.layers[layer][i])]],
                 attributes |-> [i \in 1..Len(value.attributes) |->
                                    attribute_from(value.attributes[i])]])

\* impl From<Tile> for RemoteTile
remote_tile_from(t) ==
    CASE t.tile = "Empty" -> RemoteEmpty
      [] t.tile = "Basic" -> RemoteBasic(t.uv)
      [] t.tile = "Autotile" -> RemoteAutotile(t.base)

\* impl From<TileAttribute> for RemoteAttribute
remote_attribute_from(attribute) ==
    CASE attribute = TileAttributeNone -> RemoteAttributeNone
      [] attribute = TileAttributeBlocked -> RemoteAttributeNone

\* impl From<Map> for RemoteMap
remote_map_from(value, checks) ==
    LET size == u32_mul(value.width, value.height)
    IN IF size.overflow /\ checks THEN Panic
       ELSE IF \/ Len(value.attributes) # size.value
               \/ Cardinality(DOMAIN value.layers) # MapLayer_count
               \/ \E layer \in DOMAIN value.layers : Len(value.layers[layer]) # size.value
            THEN Panic
       ELSE Ok([width |-> value.width, height |-> value.height,
                layers |-> [layer \in DOMAIN value.layers |->
                               [i \in 1..Len(value.layers[layer]) |->
                                   remote_tile_from(value.layers[layer][i])]],
                attributes |-> [i \in 1..Len(value.attributes) |->
                                   remote_attribute_from(value.attributes[i])]])

\* the maps the conversions are tried on: the sides of the small ones, a side
\* whose square does not fit a u32, the texture coordinate of their tiles
Sides == 0..MaxSide
Wide == Half
Sizes == (Sides \X Sides) \cup {<<Wide, Wide>>}
TileUVs == {ivec2(1, 2)}
Tiles == {TileEmpty} \cup {TileBasic(uv) : uv \in TileUVs}
                     \cup {Tile_autotile(uv) : uv \in TileUVs}
RemoteTiles == {RemoteEmpty} \cup {RemoteBasic(uv) : uv \in TileUVs}
                             \cup {RemoteAutotile(uv) : uv \in TileUVs}

\* the sequences of length n over S
Rows(S, n) == [1..n -> S]

\* the lengths a grid sent for n cells may have
Lengths(n) == {n, n + 1}

\* RemoteMap values as the wire can carry them, of the sizes given and of a
\* size too wide: any set of layers, the ground layer of any tiles, the other
\* layers empty, grids of any length
RemoteMaps(sizes) ==
    UNION {
        UNION {
            { [width |-> size[1], height |-> size[2],
               layers |-> [layer \in present |->
                              IF layer = "Ground" THEN ground
                              ELSE vec(RemoteEmpty, others)],
               attributes |-> vec(attribute, flags)] :
                 ground \in UNION {Rows(RemoteTiles, n) : n \in Lengths(size[1] * size[2])},
                 others \in Lengths(size[1] * size[2]),
                 flags \in Lengths(size[1] * size[2]),
                 attribute \in {RemoteAttributeNone, RemoteAttributeBlocked} } :
            present \in SUBSET MapLayers } :
        size \in sizes }
    \cup { [width |-> Wide, height |-> Wide,
            layers |-> [layer \in MapLayers |-> <<>>], attributes |-> <<>>] }

\* Map values of the sizes given with every grid of width x height cells: the
\* ground layer of any tiles, the other layers empty, any attributes
ClientMaps(sizes) ==
    UNION {
        { [width |-> size[1], height |-> size[2],
           layers |-> [layer \in MapLayers |->
                          IF layer = "Ground" THEN ground
                          ELSE vec(TileEmpty, size[1] * size[2])],
           attributes |-> attributes] :
             ground \in Rows(Tiles, size[1] * size[2]),
             attributes \in Rows({TileAttributeNone, TileAttributeBlocked},
                                 size[1] * size[2]) } :
        size \in sizes }

\* Map::new(width, height)
MapNew ==
    /\ conversion.op = "none"
    /\ \E size \in Sizes, checks \in BOOLEAN :
        conversion' = [op |-> "new", input |-> size, checks |-> checks,
                       output |-> Map_new(size[1], size[2], checks)]

\* Map::try_from(value)
TryFrom ==
    /\ conversion.op = "none"
    /\ \E value \in RemoteMaps(Sides \X Sides), checks \in BOOLEAN :
        conversion' = [op |-> "try_from", input |-> value, checks |-> checks,
                       output |-> try_from(value, checks)]

\* Map::try_from(RemoteMap::from(value)): the editor saves the map and the
\* server sends it back
RoundTrip ==
    /\ conversion.op = "none"
    /\ \E value \in ClientMaps(Sides \X Sides), checks \in BOOLEAN :
        LET sent == remote_map_from(value, checks)
        IN conversion' = [op |-> "round_trip", input |-> value, checks |-> checks,
                          output |-> IF sent.result = "Ok"
                                     THEN try_from(sent.value, checks) ELSE sent]

\* a function of map.rs, applied to one of the values above
NextMap ==
    \/ MapNew /\ UNCHANGED servervars
    \/ TryFrom /\ UNCHANGED servervars
    \/ RoundTrip /\ UNCHANGED servervars

SpecMap == Init /\ [][NextMap]_vars

\* ------------------------------------------------------------ properties

\* the events the last dispatch appended to the queue
Out == SubSeq(network_queue, prev.qlen + 1, Len(network_queue))

\* the connections a selector addresses
Addressed(to) ==
    CASE to.kind = "only" -> to.ids
      [] to.kind = "list" -> to.ids
      [] to.kind = "exclude" -> ClientIds \ to.ids
      [] to.kind = "everybody" -> ClientIds

\* the positions in out of the events of a type about client c
EventsAbout(out, type, c) ==
    {i \in DOMAIN out : out[i].msg.type = type /\ out[i].msg.client_id = c}

\* how many events of a type about client c the sequence out addresses to q
SentCount(q, out, type, c) ==
    Cardinality({i \in EventsAbout(out, type, c) : q \in Addressed(out[i].to)})

\* the last dispatch was a Warp request of an Active connection
IsWarpReq ==
    /\ last.kind = "Message" /\ last.message.type = "Warp"
    /\ last.client \in DOMAIN prev.players

\* the last dispatch was a handshake
IsHello == last.kind = "Message" /\ last.message.type = "Hello"

\* the last dispatch ran warp_player
IsWarp == IsWarpReq \/ IsHello

Mover == last.client
WarpTarget == IF IsHello THEN StartMap ELSE last.message.map_id

\* the players other than the mover that were on map_id before the dispatch
OccupantsBefore(map_id) ==
    {q \in DOMAIN prev.players \ {Mover} : prev.players[q].map = map_id}

TypeOK ==
    /\ DOMAIN players \subseteq connected
    /\ StartMap \in DOMAIN maps

\* C1: after a Warp request that moves player P from map A to a different map
\* B, every other player that was on A has been sent exactly one
\* PlayerLeft(P), and every connection not on A none.
C1_PlayerLeftToOldMap ==
    (IsWarpReq /\ prev.players[Mover].map # WarpTarget) =>
        \A q \in ClientIds \ {Mover} :
            SentCount(q, Out, "PlayerLeft", Mover)
                = IF q \in OccupantsBefore(prev.players[Mover].map) THEN 1 ELSE 0

\* C2: after any warp of P to B (handshake or Warp request) every player on
\* B, P included, has been sent exactly one PlayerJoined(P) and exactly one
\* PlayerMove(P).
C2_JoinedAndMovedOnce ==
    IsWarp =>
        \A q \in OnMap(players, WarpTarget) :
            /\ SentCount(q, Out, "PlayerJoined", Mover) = 1
            /\ SentCount(q, Out, "PlayerMove", Mover) = 1

\* C3: after any warp of P to B there is exactly one ChangeMap, it is
\* addressed to P only and carries B with the revision stored for B (0 when
\* B is not loaded); for every other player Q there is one PlayerJoined(Q)
\* when Q was on B before the warp and none otherwise, addressed to P only.
C3_MoverLearnsTarget ==
    IsWarp =>
        LET stored == IF WarpTarget \in DOMAIN prev.maps
                      THEN prev.maps[WarpTarget].settings.revision ELSE 0
            changes == {i \in DOMAIN Out : Out[i].msg.type = "ChangeMap"}
        IN /\ Cardinality(changes) = 1
           /\ \A i \in changes : Out[i] = only(Mover, ChangeMap(WarpTarget, stored))
           /\ \A q \in ClientIds \ {Mover} :
                LET joins == EventsAbout(Out, "PlayerJoined", q)
                IN /\ Cardinality(joins) = IF q \in OccupantsBefore(WarpTarget) THEN 1 ELSE 0
                   /\ \A i \in joins : Addressed(Out[i].to) = {Mover}

\* a Warp request to a loaded map of revision 3 on which another player stands
C3_Witness ==
    /\ IsWarpReq
    /\ WarpTarget \in DOMAIN prev.maps
    /\ prev.maps[WarpTarget].settings.revision = 3
    /\ OccupantsBefore(WarpTarget) # {}
    /\ prev.players[Mover].map # WarpTarget


\* C4: a client clears what it shows on its own ChangeMap, adds a player on
\* PlayerJoined and removes one on PlayerLeft; after a flush every Active
\* connection shows exactly the players on its own current map.
C4_ViewsConsistent ==
    last.kind = "SendAll" =>
        \A c \in DOMAIN players : view[c] = OnMap(players, players[c].map)

WarpTypes == {"PlayerLeft", "ChangeMap", "PlayerJoined", "PlayerMove"}

C6_RejectedWithoutRecord ==
    [][ ( /\ last'.kind = "Message"
          /\ last'.message.type # "Hello"
          /\ last'.client \notin DOMAIN players )
        => UNCHANGED <<players, maps, network_queue, panicked>>
      ]_vars

\* a Move of a connection that has not said Hello was dispatched
C6_Witness ==
    /\ last.kind = "Message"
    /\ last.message.type = "Move"
    /\ last.client \notin DOMAIN prev.players

\* C7: the connections with a player record are exactly those whose Hello
\* was dispatched and that were not disconnected since.
C7_RecordIffHandshaken == DOMAIN players = handshaken

\* an Active connection was disconnected while another stays Active
C7_Witness ==
    /\ last.kind = "Disconnected"
    /\ last.client \in DOMAIN prev.players
    /\ DOMAIN players # {}

\* C8: after Hello(name, sprite) of connection C, C's record holds that name
\* and sprite, the start map, the spawn point (10 * 48, 7 * 48), direction
\* South and no velocity.
C8_HelloSpawnsRecord ==
    IsHello =>
        /\ Mover \in DOMAIN players
        /\ players[Mover].name = last.message.name
        /\ players[Mover].sprite = last.message.sprite
        /\ players[Mover].map = StartMap
        /\ players[Mover].position = <<10 * 48, 7 * 48>>
        /\ players[Mover].direction = "South"
        /\ players[Mover].velocity = None

\* a Hello of a connection whose record was elsewhere: on the other map, at
\* another position, moving, under another name
C8_Witness ==
    /\ IsHello
    /\ Mover \in DOMAIN prev.players
    /\ prev.players[Mover].map = OtherMap
    /\ prev.players[Mover].position # <<10 * 48, 7 * 48>>
    /\ prev.players[Mover].velocity # None
    /\ prev.players[Mover].name # last.message.name

\* C9: the events of a Hello of C start with Hello(C) addressed to C only,
\* end with the join notice addressed to all but C, hold no PlayerLeft, and
\* hold the warp's events, ChangeMap first, after the Hello and before the
\* join notice.
C9_HelloEventsInOrder ==
    IsHello =>
        LET n == Len(Out)
            warp == {i \in 1..n : Out[i].msg.type \in WarpTypes}
        IN /\ n >= 5
           /\ Out[1] = only(Mover, HelloMsg(Mover))
           /\ Out[n] = exclude(Mover, ChatMsg("Server",
                                              last.message.name \o " has joined the game."))
           /\ \A i \in 1..n : Out[i].msg.type # "PlayerLeft"
           /\ \A i \in 1..n : Out[i].msg.type = "Hello" => i = 1
           /\ \A i \in 1..n : Out[i].to.kind = "exclude" => i = n
           /\ warp # {}
           /\ \A i \in warp : 1 < i /\ i < n
           /\ \A i \in warp : \A j \in 2..i : j \in warp
           /\ Out[2].msg.type = "ChangeMap"

\* a Hello while another player stands on the start map
C9_Witness ==
    /\ IsHello
    /\ OccupantsBefore(StartMap) # {}

\* C10: after Disconnected(C) of an Active connection, C's record is gone
\* and the events queued are one PlayerLeft(C), addressed to the remaining
\* players that were on C's map, and then one notice that C has left,
\* addressed to all but C.
C10_DisconnectNotifies ==
    (last.kind = "Disconnected" /\ last.client \in DOMAIN prev.players) =>
        LET C == last.client
            gone == prev.players[C]
        IN /\ C \notin DOMAIN players
           /\ DOMAIN players = DOMAIN prev.players \ {C}
           /\ \A q \in DOMAIN players : players[q] = prev.players[q]
           /\ Len(Out) = 2
           /\ Out[1].msg = PlayerLeft(C)
           /\ Out[1].to.kind = "list"
           /\ Out[1].to.ids = {q \in DOMAIN prev.players \ {C} :
                                   prev.players[q].map = gone.map}
           /\ Out[2] = exclude(C, ChatMsg("Server", gone.name \o " has left the game."))

\* an Active connection was disconnected while another player stood on its map
C10_Witness ==
    /\ last.kind = "Disconnected"
    /\ last.client \in DOMAIN prev.players
    /\ \E q \in DOMAIN players : players[q].map = prev.players[last.client].map

\* C11: Disconnected(C) for a connection without a player record queues no
\* event and leaves the players and the maps as they were.
C11_DisconnectWithoutRecord ==
    (last.kind = "Disconnected" /\ last.client \notin DOMAIN prev.players) =>
        /\ Out = <<>>
        /\ players = prev.players
        /\ maps = prev.maps

\* a connection without a record was disconnected while a player was in the
\* game
C11_Witness ==
    /\ last.kind = "Disconnected"
    /\ last.client \notin DOMAIN prev.players
    /\ prev.players # EmptyMap

\* C12: every handler returns normally, whatever the requests and
\* disconnects dispatched before: the loop thread never unwinds.
C12_HandlersReturn == ~panicked

\* C20: after a Move request of an Active connection the record holds the
\* position, the velocity and the direction supplied, the other records and
\* the maps are as they were.
C20_MoveStoresAll ==
    (last.kind = "Message" /\ last.message.type = "Move"
     /\ last.client \in DOMAIN prev.players) =>
        /\ DOMAIN players = DOMAIN prev.players
        /\ players[last.client].position = last.message.position
        /\ players[last.client].velocity = last.message.velocity
        /\ players[last.client].direction = last.message.direction
        /\ \A q \in DOMAIN players \ {last.client} : players[q] = prev.players[q]
        /\ maps = prev.maps

\* the last step was update_players
IsUpdate == last.kind = "Update"

\* the footprint of a player standing at position: the lower half of the
\* sprite's box, as left, top, right, bottom
Footprint(position) ==
    [left |-> position[1], top |-> position[2] + SPRITE_SIZE \div 2,
     right |-> position[1] + SPRITE_SIZE, bottom |-> position[2] + SPRITE_SIZE]

\* the footprint lies within the pixels of the map
InBounds(f, map) ==
    /\ 0 <= f.left /\ f.right <= map.width * TILE_SIZE
    /\ 0 <= f.top /\ f.bottom <= map.height * TILE_SIZE

\* the footprint and the area share a pixel
Overlaps(f, area) ==
    /\ f.left < area.position[1] + area.size[1] /\ area.position[1] < f.right
    /\ f.top < area.position[2] + area.size[2] /\ area.position[2] < f.bottom

\* the areas of a kind on a map
AreasOf(map, kind) == {i \in DOMAIN map.areas : map.areas[i].data.type = kind}

\* the footprint touches no Blocked area of the map
Clear(f, map) == \A i \in AreasOf(map, "Blocked") : ~Overlaps(f, map.areas[i])

\* where the velocity of a record carries it in the measured time
Candidate(player) ==
    <<player.position[1] + (player.velocity[1][1] * dt) \div UnitsPerSecond,
      player.position[2] + (player.velocity[1][2] * dt) \div UnitsPerSecond>>

C14_NeverInsideBlocked ==
    \A c \in DOMAIN players :
        players[c].map \in DOMAIN maps =>
            Clear(Footprint(players[c].position), maps[players[c].map])

\* C14: no tick carries a player into a Blocked area: a footprint clear of
\* the Blocked areas before update_players is clear of them after it.
C14_TickKeepsClear ==
    IsUpdate =>
        \A c \in DOMAIN players :
            (/\ prev.players[c].map \in DOMAIN maps
             /\ Clear(Footprint(prev.players[c].position), maps[prev.players[c].map]))
            => Clear(Footprint(players[c].position), maps[players[c].map])

\* a tick held back a player walking from clear ground into the wall
C14_Witness ==
    /\ IsUpdate
    /\ \E c \in DOMAIN players :
         /\ prev.players[c].velocity # None
         /\ Clear(Footprint(prev.players[c].position), maps[StartMap])
         /\ ~Clear(Footprint(Candidate(prev.players[c])), maps[StartMap])
         /\ players[c].position = prev.players[c].position

\* the Log areas of its map that the footprint of player c touches
LogAreasAt(c) ==
    IF players[c].map \in DOMAIN maps
    THEN {i \in AreasOf(maps[players[c].map], "Log") :
            Overlaps(Footprint(players[c].position), maps[players[c].map].areas[i])}
    ELSE {}

\* C15: after a tick in which the footprint of a player touches a Log area
\* more than a second after that player's last proximity message, one chat
\* message addressed to that player only is queued and the player's
\* timestamp is the tick's; a player whose last message is a second old or
\* less is sent none.
C15_ProximityMessage ==
    IsUpdate =>
        \A c \in DOMAIN players :
            LET mine == {i \in DOMAIN Out : c \in Addressed(Out[i].to)}
            IN /\ (LogAreasAt(c) # {} /\ time - prev.players[c].last_message > Cooldown)
                    => /\ Cardinality(mine) = 1
                       /\ \A i \in mine : /\ Out[i].to = [kind |-> "only", ids |-> {c}]
                                          /\ Out[i].msg.type = "Message"
                       /\ players[c].last_message = time
               /\ (time + MaxLag - prev.players[c].last_message <= Cooldown)
                    => mine = {}

C17_PhasesInOrder ==
    /\ tick.phases \in {<<>>, <<"drain">>, <<"drain", "update">>,
                        <<"drain", "update", "send">>}
    /\ (tick.phases # <<>> => tick.avail = 0)
    /\ (last.kind = "Update" => Len(tick.phases) >= 2)
    /\ (last.kind = "SendAll" => tick.phases = <<"drain", "update", "send">>)

\* a pass that found two signals waiting has received them, simulated and
\* written the events they queued
C17_Witness ==
    /\ last.kind = "SendAll"
    /\ tick.start = 2
    /\ written # <<>>

\* C18: send_all writes the events queued in its pass of the loop, each
\* once and in the order they were queued, and leaves the queue empty.
C18_FlushWritesAll ==
    /\ last.kind = "SendAll" => (written = tick.enq /\ network_queue = <<>>)
    /\ network_queue = tick.enq \/ last.kind = "SendAll"

\* a flush wrote the events of a handshake and a chat line of the same pass
C18_Witness ==
    /\ last.kind = "SendAll"
    /\ Len(written) > 5
    /\ written[Len(written)].msg.channel = "Say"

\* C19: the signals handed to the handlers, followed by those still in the
\* channel, are the signals deposited, in the order deposited; a deposit
\* changes neither the players, nor the maps, nor what was dispatched.
C19_DispatchedInOrder ==
    [][/\ deposited' = dispatched' \o inbox'
       /\ deposited' # deposited => UNCHANGED <<players, maps, dispatched>>]_vars

\* in one drain the loop has received more signals than waited when the
\* pass began, and another one is waiting
C19_Witness ==
    /\ pc = "recv"
    /\ tick.start >= 1
    /\ handled > tick.start
    /\ inbox # <<>>
    /\ Len(dispatched) = Len(deposited) - Len(inbox)

\* the last dispatch was a request of the type given, of an Active connection
IsRequest(type) ==
    /\ last.kind = "Message" /\ last.message.type = type
    /\ last.client \in DOMAIN prev.players

\* the map of the requester before the request
RequesterMap == prev.players[last.client].map

\* the maps stored under identifiers other than map_id are as they were
OtherMapsKept(map_id) ==
    /\ DOMAIN maps \ {map_id} = DOMAIN prev.maps \ {map_id}
    /\ \A id \in DOMAIN maps \ {map_id} : maps[id] = prev.maps[id]

\* C21: a Move request of C queues one PlayerMove(C), addressed to the
\* players on C's map other than C.
C21_MoveToOthersOnMap ==
    IsRequest("Move") =>
        /\ Len(Out) = 1
        /\ Out[1].msg.type = "PlayerMove"
        /\ Out[1].msg.client_id = last.client
        /\ Addressed(Out[1].to) = OnMap(players, RequesterMap) \ {last.client}

\* C22: a SaveMap request of a player on map M stores the payload under M
\* and queues one MapData(payload) addressed to the players on M; the other
\* maps and the player records are as they were.
C22_SaveMapStoresAndTells ==
    IsRequest("SaveMap") =>
        /\ RequesterMap \in DOMAIN maps
        /\ maps[RequesterMap] = last.message.map
        /\ OtherMapsKept(RequesterMap)
        /\ players = prev.players
        /\ Len(Out) = 1
        /\ Out[1].msg = MapData(last.message.map)
        /\ Addressed(Out[1].to) = {q \in DOMAIN prev.players :
                                      prev.players[q].map = RequesterMap}

\* a player saved, over a stored map on which another player stands, a
\* payload that names another map
C22_Witness ==
    /\ IsRequest("SaveMap")
    /\ RequesterMap \in DOMAIN prev.maps
    /\ last.message.map.id # RequesterMap
    /\ \E q \in DOMAIN players \ {last.client} : players[q].map = RequesterMap
    /\ \E id \in DOMAIN maps : id # RequesterMap

\* C24: a RequestMap of C on map M queues one MapData, addressed to C only,
\* carrying the map stored under M; when none was stored a 20 x 15 map is
\* stored under M first; no other map and no record changes.
C24_RequestMapReplies ==
    IsRequest("RequestMap") =>
        /\ RequesterMap \in DOMAIN maps
        /\ Len(Out) = 1
        /\ Out[1] = only(last.client, MapData(maps[RequesterMap]))
        /\ IF RequesterMap \in DOMAIN prev.maps
           THEN maps = prev.maps
           ELSE /\ maps[RequesterMap].id = RequesterMap
                /\ maps[RequesterMap].width = 20
                /\ maps[RequesterMap].height = 15
        /\ OtherMapsKept(RequesterMap)
        /\ players = prev.players

\* a player on a map that is not in the store asked for it
C24_Witness ==
    /\ IsRequest("RequestMap")
    /\ RequesterMap \notin DOMAIN prev.maps

\* C25: a Warp request to an identifier with no stored map makes it the
\* player's current map, queues ChangeMap with revision 0, adds nothing to
\* the store and does not unwind; a RequestMap of a player on such an
\* identifier stores a 20 x 15 map under it.
C25_WarpToUnloaded ==
    /\ (IsWarpReq /\ WarpTarget \notin DOMAIN prev.maps) =>
          /\ ~panicked
          /\ players[Mover].map = WarpTarget
          /\ maps = prev.maps
          /\ \E i \in DOMAIN Out : Out[i] = only(Mover, ChangeMap(WarpTarget, 0))
          /\ \A i \in DOMAIN Out : Out[i].msg.type = "ChangeMap" => Out[i].msg.revision = 0
    /\ (IsRequest("RequestMap") /\ RequesterMap \notin DOMAIN prev.maps) =>
          /\ DOMAIN maps = DOMAIN prev.maps \cup {RequesterMap}
          /\ maps[RequesterMap].width = 20 /\ maps[RequesterMap].height = 15

\* a player was warped from a stored map to an identifier that is not in
\* the store
C25_Witness ==
    /\ IsWarpReq
    /\ WarpTarget \notin DOMAIN prev.maps
    /\ prev.players[Mover].map \in DOMAIN prev.maps

\* the PlayerMove events about the mover among the events of the last dispatch
WarpMoves == {i \in DOMAIN Out : Out[i].msg.type = "PlayerMove" /\ Out[i].msg.client_id = Mover}

\* C26: the PlayerMove of a Warp request carries the target position when
\* one is supplied, else the stored position, and the stored direction and
\* velocity; the PlayerMove of a handshake carries the spawn values.
C26_WarpMoveCarries ==
    /\ IsWarpReq =>
          /\ WarpMoves # {}
          /\ \A i \in WarpMoves :
               /\ Out[i].msg.position =
                     IF last.message.position = None
                     THEN prev.players[Mover].position ELSE last.message.position[1]
               /\ Out[i].msg.direction = prev.players[Mover].direction
               /\ Out[i].msg.velocity = prev.players[Mover].velocity
    /\ IsHello =>
          /\ WarpMoves # {}
          /\ \A i \in WarpMoves :
               /\ Out[i].msg.position = <<10 * 48, 7 * 48>>
               /\ Out[i].msg.direction = "South"
               /\ Out[i].msg.velocity = None

\* a walking player away from the spawn point was warped to a position
C26_Witness ==
    /\ IsWarpReq
    /\ last.message.position # None
    /\ last.message.position[1] # prev.players[Mover].position
    /\ prev.players[Mover].velocity # None
    /\ prev.players[Mover].position # <<10 * 48, 7 * 48>>

\* C27: a chat line of C queues one chat event, the stored name of C, then
\* ": ", then the text, addressed to every connection; the players and the
\* maps are as they were.
C27_ChatToEverybody ==
    IsRequest("Message") =>
        /\ Len(Out) = 1
        /\ Out[1].msg.type = "Message"
        /\ Out[1].msg.text = prev.players[last.client].name \o ": " \o last.message.text
        /\ Addressed(Out[1].to) = ClientIds
        /\ players = prev.players
        /\ maps = prev.maps

\* a named player sent a chat line while a connection without a record was
\* open
C27_Witness ==
    /\ IsRequest("Message")
    /\ prev.players[last.client].name # ""
    /\ connected \ DOMAIN players # {}

\* C28: a MapEditor request of C queues one MapEditor snapshot, addressed to
\* C only, listing every stored identifier with its name and the id, width,
\* height and settings of C's map; the players and the maps are as they
\* were and the handler returns.
C28_MapEditorSnapshot ==
    IsRequest("MapEditor") =>
        /\ ~panicked
        /\ Len(Out) = 1
        /\ Out[1].to = [kind |-> "only", ids |-> {last.client}]
        /\ Out[1].msg.type = "MapEditor"
        /\ DOMAIN Out[1].msg.maps = DOMAIN maps
        /\ \A id \in DOMAIN maps : Out[1].msg.maps[id] = maps[id].settings.name
        /\ Out[1].msg.id = RequesterMap
        /\ players = prev.players
        /\ maps = prev.maps

\* C29: the start map identifier is in the store in every state, and no
\* step takes an identifier out of the store.
C29_StartMapStays ==
    [](StartMap \in DOMAIN maps) /\ [][DOMAIN maps \subseteq DOMAIN maps']_vars

\* the start map is the default made at load, and a request has since added
\* another identifier to the store
C29_Witness ==
    /\ maps[StartMap].width = 20 /\ maps[StartMap].height = 15
    /\ IsRequest("RequestMap")
    /\ RequesterMap \notin DOMAIN prev.maps
    /\ RequesterMap # StartMap

\* C23: when the write of a SaveMap fails, so that the file of the map is
\* missing or is not the payload, the store still holds the payload, the
\* MapData is still queued and the handler returns.
C23_SaveFailureKeepsMemory ==
    (IsRequest("SaveMap")
     /\ (RequesterMap \notin DOMAIN disk \/ disk[RequesterMap] # last.message.map)) =>
        /\ ~panicked
        /\ maps[RequesterMap] = last.message.map
        /\ Len(Out) = 1
        /\ Out[1].msg = MapData(last.message.map)

\* the write of a SaveMap failed: the store holds the payload, the
\* directory has no file for the map
C23_Witness ==
    /\ IsRequest("SaveMap")
    /\ RequesterMap \notin DOMAIN disk
    /\ maps[RequesterMap] = last.message.map

\* C30: every map in the store has each layer of the fixed set and no
\* other, and each layer holds width x height tiles.
C30_LayersComplete ==
    \A id \in DOMAIN maps :
        /\ DOMAIN maps[id].layers = {"Ground", "Mask", "Fringe"}
        /\ \A layer \in DOMAIN maps[id].layers :
              maps[id].layers[layer] = maps[id].width * maps[id].height

\* C31: no step lowers the revision stored under a map identifier, so the
\* revisions that successive ChangeMap events carry for one map never go down.
C31_RevisionNeverDecreases ==
    [][\A id \in DOMAIN maps :
          id \in DOMAIN maps' =>
              maps'[id].settings.revision >= maps[id].settings.revision]_vars

\* n = width x height, in the integers
IsProduct(n, width, height) ==
    IF width = 0 \/ height = 0 THEN n = 0
    ELSE n % width = 0 /\ n \div width = height

\* a map holds every layer of the enumeration and no other, and each layer
\* and the attribute grid hold width x height entries
Complete(map) ==
    /\ DOMAIN map.layers = MapLayers
    /\ \A layer \in MapLayers : IsProduct(Len(map.layers[layer]), map.width, map.height)
    /\ IsProduct(Len(map.attributes), map.width, map.height)

\* C32: Map::new(width, height) returns, for every width and height, a map
\* of that width and height that holds every layer of the enumeration, each
\* of width x height tiles, all Empty, and width x height attributes.
C32_NewMapComplete ==
    conversion.op = "new" =>
        /\ conversion.output.result = "Ok"
        /\ conversion.output.value.width = conversion.input[1]
        /\ conversion.output.value.height = conversion.input[2]
        /\ Complete(conversion.output.value)
        /\ \A layer \in MapLayers :
              \A i \in 1..Len(conversion.output.value.layers[layer]) :
                  conversion.output.value.layers[layer][i] = TileEmpty

\* a grid of the RemoteMap does not hold width x height entries
WrongSize(value) ==
    \/ ~IsProduct(Len(value.attributes), value.width, value.height)
    \/ \E layer \in DOMAIN value.layers :
          ~IsProduct(Len(value.layers[layer]), value.width, value.height)

\* the RemoteMap does not have as many layers as the enumeration
WrongLayers(value) == Cardinality(DOMAIN value.layers) # Cardinality(MapLayers)

\* C33: Map::try_from fails when a grid of the RemoteMap does not hold
\* width x height entries or the number of layers is not that of the
\* enumeration, with IncorrectSize only for the first and IncorrectLayers
\* only for the second; otherwise it returns a map of the same width and
\* height whose layers and attribute grid each hold width x height entries.
C33_TryFromValidates ==
    conversion.op = "try_from" =>
        IF WrongSize(conversion.input) \/ WrongLayers(conversion.input)
        THEN /\ conversion.output.result = "Err"
             /\ conversion.output.error \in {"IncorrectSize", "IncorrectLayers"}
             /\ conversion.output.error = "IncorrectSize" => WrongSize(conversion.input)
             /\ conversion.output.error = "IncorrectLayers" => WrongLayers(conversion.input)
        ELSE /\ conversion.output.result = "Ok"
             /\ conversion.output.value.width = conversion.input.width
             /\ conversion.output.value.height = conversion.input.height
             /\ Complete(conversion.output.value)

C35_WarpChangesOnlyMap ==
    IsWarpReq =>
        /\ players = [prev.players EXCEPT ![Mover].map = WarpTarget]
        /\ players[Mover].position = prev.players[Mover].position
        /\ players[Mover].direction = prev.players[Mover].direction
        /\ players[Mover].velocity = prev.players[Mover].velocity
        /\ maps = prev.maps

\* a walking player was warped to another map and to a position that is not
\* the stored one, with another player in the game
C35_Witness ==
    /\ IsWarpReq
    /\ WarpTarget # prev.players[Mover].map
    /\ last.message.position # None
    /\ last.message.position[1] # prev.players[Mover].position
    /\ prev.players[Mover].velocity # None
    /\ DOMAIN players # {Mover}

\* C36: every map of the store is stored under its own identifier: the id
\* field of the map under key k is k.
C36_StoredUnderOwnId ==
    \A k \in DOMAIN maps : maps[k].id = k

\* C37: a Hello of a connection C that has a record leaves C with one
\* record and the other records as they were; C's record is the spawn state
\* on the start map under the new name and sprite; the events are those of a
\* first handshake: Hello(C), ChangeMap of the start map, a PlayerJoined to C
\* for each player now on the start map, C's PlayerJoined and PlayerMove to
\* those players, the welcome and the join notice, and no PlayerLeft.
C37_HelloAgainResets ==
    (IsHello /\ Mover \in DOMAIN prev.players) =>
        LET C == Mover
            there == OccupantsBefore(StartMap) \cup {C}
            k == Cardinality(there)
            data == [name |-> last.message.name, sprite |-> last.message.sprite,
                     position |-> <<10 * 48, 7 * 48>>, direction |-> "South",
                     map |-> StartMap, velocity |-> None]
        IN /\ DOMAIN players = DOMAIN prev.players
           /\ \A q \in DOMAIN players \ {C} : players[q] = prev.players[q]
           /\ \A f \in DOMAIN data : players[C][f] = data[f]
           /\ Len(Out) = k + 6
           /\ Out[1] = only(C, HelloMsg(C))
           /\ Out[2] = only(C, ChangeMap(StartMap, maps[StartMap].settings.revision))
           /\ \A i \in 3..(k + 2) : Out[i].to = [kind |-> "only", ids |-> {C}]
           /\ {Out[i].msg : i \in 3..(k + 2)}
                 = {PlayerJoined(q, NetworkPlayerData(players[q])) : q \in there}
           /\ Out[k + 3] = list(there, PlayerJoined(C, NetworkPlayerData(players[C])))
           /\ Out[k + 4] = list(there, PlayerMove(C, <<10 * 48, 7 * 48>>, "South", None))
           /\ Out[k + 5] = only(C, ChatMsg("Server", "Welcome to Game!"))
           /\ Out[k + 6] = exclude(C, ChatMsg("Server",
                                              last.message.name \o " has joined the game."))

\* a Hello of a connection whose record was on the other map, away from the
\* spawn point and walking, under another name, while another player stands
\* on the start map
C37_Witness ==
    /\ IsHello
    /\ Mover \in DOMAIN prev.players
    /\ prev.players[Mover].map = OtherMap
    /\ prev.players[Mover].position # <<10 * 48, 7 * 48>>
    /\ prev.players[Mover].velocity # None
    /\ prev.players[Mover].name # last.message.name
    /\ OccupantsBefore(StartMap) # {}

\* the fields of a record that the tick may write
TickFields == {"position", "last_message"}

\* C38: update_players writes only the position and the time of the last
\* proximity message of a record: the set of players is as it was, the
\* velocity, direction, map, name and sprite of every record are as they
\* were, also when the move was rejected, and the maps are as they were.
C38_TickWritesPositionAndTime ==
    IsUpdate =>
        /\ DOMAIN players = DOMAIN prev.players
        /\ \A c \in DOMAIN players :
              /\ DOMAIN players[c] = DOMAIN prev.players[c]
              /\ \A f \in DOMAIN players[c] \ TickFields :
                    players[c][f] = prev.players[c][f]
        /\ maps = prev.maps

\* a tick held back a player walking into the wall, and told it of the
\* notice it stands on
C38_Witness ==
    /\ IsUpdate
    /\ \E c \in DOMAIN players :
         /\ prev.players[c].velocity # None
         /\ Candidate(prev.players[c]) # prev.players[c].position
         /\ players[c].position = prev.players[c].position
         /\ players[c].last_message # prev.players[c].last_message

\* C39: every pass of the loop that starts its drain goes on to its flush:
\* the drain ends, update_players and send_all run.
C39_TickReachesFlush ==
    (pc = "recv") ~> (last.kind = "SendAll")

====
